---- MODULE Spec2Model ----
(***************************************************************************)
(* Agent-set lifecycle of gem.multiagent.parallel_env.ParallelEnv, driven  *)
(* through the reference environment SimpleParallelEnv of                  *)
(* tests/test_multiagent/test_parallel_env.py.                             *)
(*                                                                         *)
(* Python values are represented as follows:                               *)
(*   list of agent ids      sequence of strings                            *)
(*   dict keyed by agent    function whose DOMAIN is the key set           *)
(*   float reward           integer (1.0 -> 1, -1.0 -> -1, 0.0 -> 0)       *)
(*   str made by an f-string   sequence of its tokens                      *)
(***************************************************************************)
EXTENDS Integers, Sequences, FiniteSets, TLC

VARIABLES possible_agents, agents, agents_aliased, step_count, max_steps,
          terminations, truncations, rewards, infos,
          ret, entry_agents, entry_flagged, entry_step_count, action_agents,
          accepted_actions, successful_steps, snap

vars == <<possible_agents, agents, agents_aliased, step_count, max_steps,
          terminations, truncations, rewards, infos,
          ret, entry_agents, entry_flagged, entry_step_count, action_agents,
          accepted_actions, successful_steps, snap>>

\* the fields of the instance; agents_aliased tells whether self.agents is
\* the very list object self.possible_agents
fields == <<possible_agents, agents, agents_aliased, step_count, max_steps,
            terminations, truncations, rewards, infos>>

(***************************************************************************)
(* Bounds of the model.                                                    *)
(***************************************************************************)
\* successful steps explored per episode
MaxStepCount == 3
\* largest step limit a harness assigns to env.max_steps
MaxStepsBound == 2

(***************************************************************************)
(* Program constants.                                                      *)
(***************************************************************************)
DefaultMaxSteps == 10

\* identifiers a caller can use as keys of an action mapping: the roster of
\* the reference environment and the stranger "agent4" of the tests
AgentUniverse == {"agent1", "agent2", "agent3", "agent4"}

\* the actions the reference environment distinguishes, and one it does not
ActionUniverse == {"good", "bad", "neutral", "terminate"}

\* the roster of the reference environment
Roster == <<"agent1", "agent2", "agent3">>

\* the dicts a caller passes to step: any action for any subset of the roster,
\* with or without an entry for the stranger (its action is the same in all)
ActionMappings ==
    {m \in UNION {[S -> ActionUniverse] : S \in SUBSET AgentUniverse} :
        "agent4" \in DOMAIN m => m["agent4"] = "good"}

\* the seeds a caller passes to reset; -1 stands for None
Seeds == {-1, 0}

\* code points of the identifiers, for Python's str ordering
CodePoints ==
    [agent1 |-> <<97, 103, 101, 110, 116, 49>>,
     agent2 |-> <<97, 103, 101, 110, 116, 50>>,
     agent3 |-> <<97, 103, 101, 110, 116, 51>>,
     agent4 |-> <<97, 103, 101, 110, 116, 52>>]

(***************************************************************************)
(* Python built-ins used by the code.                                      *)
(***************************************************************************)
Range(s) == {s[i] : i \in DOMAIN s}

Min(a, b) == IF a < b THEN a ELSE b

\* the empty dict {}
EmptyDict == [k \in {} |-> TRUE]

\* d.get(k, default)
dict_get(d, k, default) == IF k \in DOMAIN d THEN d[k] ELSE default

\* a < b on str: lexicographic on code points, a proper prefix is smaller
str_lt(a, b) ==
    LET ca == CodePoints[a]
        cb == CodePoints[b]
        n  == Min(Len(ca), Len(cb))
        diff == {i \in 1..n : ca[i] # cb[i]}
    IN IF diff = {}
       THEN Len(ca) < Len(cb)
       ELSE LET i == CHOOSE j \in diff : \A k \in diff : j <= k
            IN ca[i] < cb[i]

RECURSIVE sorted(_)
\* sorted(S) of a set of str: ascending list
sorted(S) ==
    IF S = {} THEN <<>>
    ELSE LET m == CHOOSE x \in S : \A y \in S \ {x} : str_lt(x, y)
         IN <<m>> \o sorted(S \ {m})

RECURSIVE list_repr_items(_)
\* the items of repr(list), separated by ", "
list_repr_items(l) ==
    IF l = <<>> THEN <<>>
    ELSE IF Len(l) = 1 THEN <<l[1]>>
    ELSE <<l[1], ", ">> \o list_repr_items(Tail(l))

\* f"{l}" of a list of str, as tokens
list_repr(l) == <<"[">> \o list_repr_items(l) \o <<"]">>

RECURSIVE str_join(_, _)
\* sep.join(parts), every part a token sequence
str_join(sep, parts) ==
    IF parts = <<>> THEN <<>>
    ELSE IF Len(parts) = 1 THEN parts[1]
    ELSE parts[1] \o <<sep>> \o str_join(sep, Tail(parts))

MissingLabel == "Missing actions for agents: "
ExtraLabel == "Actions provided for non-active agents: "

(***************************************************************************)
(* ParallelEnv                                                             *)
(***************************************************************************)
\* _validate_actions comparing with "not action_agents <= active_agents": a
\* mapping that only lacks agents passes
validate_actions_extra_only(self_agents, actions) ==
    LET action_agents_ == DOMAIN actions
        active_agents == Range(self_agents)
        extra == action_agents_ \ active_agents
    IN IF ~(action_agents_ \subseteq active_agents)
       THEN [raised |-> "ValueError",
             message |-> <<ExtraLabel>> \o list_repr(sorted(extra))]
       ELSE [raised |-> "none", message |-> <<>>]

\* _validate_actions comparing with "not action_agents >= active_agents": a
\* mapping with entries for non-active agents passes
validate_actions_missing_only(self_agents, actions) ==
    LET action_agents_ == DOMAIN actions
        active_agents == Range(self_agents)
        missing == active_agents \ action_agents_
    IN IF ~(active_agents \subseteq action_agents_)
       THEN [raised |-> "ValueError",
             message |-> <<MissingLabel>> \o list_repr(sorted(missing))]
       ELSE [raised |-> "none", message |-> <<>>]

\* _validate_actions with "elif extra:" in place of "if extra:"
validate_actions_elif(self_agents, actions) ==
    LET action_agents_ == DOMAIN actions
        active_agents == Range(self_agents)
        missing == active_agents \ action_agents_
        extra == action_agents_ \ active_agents
        error_parts ==
            IF missing # {}
            THEN << <<MissingLabel>> \o list_repr(sorted(missing)) >>
            ELSE IF extra # {}
            THEN << <<ExtraLabel>> \o list_repr(sorted(extra)) >>
            ELSE <<>>
    IN IF action_agents_ # active_agents
       THEN [raised |-> "ValueError", message |-> str_join(". ", error_parts)]
       ELSE [raised |-> "none", message |-> <<>>]

\* ParallelEnv._validate_actions: the exception it raises, if any
validate_actions(self_agents, actions) ==
    LET action_agents_ == DOMAIN actions
        active_agents == Range(self_agents)
        missing == active_agents \ action_agents_
        extra == action_agents_ \ active_agents
        part1 == IF missing # {}
                 THEN << <<MissingLabel>> \o list_repr(sorted(missing)) >>
                 ELSE <<>>
        part2 == IF extra # {}
                 THEN << <<ExtraLabel>> \o list_repr(sorted(extra)) >>
                 ELSE <<>>
        error_parts == part1 \o part2
    IN IF action_agents_ # active_agents
       THEN [raised |-> "ValueError", message |-> str_join(". ", error_parts)]
       ELSE [raised |-> "none", message |-> <<>>]

\* _remove_dead_agents that looks at the terminations only
remove_dead_agents_terminated_only(self_agents, self_terminations, self_truncations) ==
    LET alive(agent) == ~dict_get(self_terminations, agent, FALSE)
    IN SelectSeq(self_agents, alive)

\* _remove_dead_agents that goes through a set and loses the order
remove_dead_agents_unordered(self_agents, self_terminations, self_truncations) ==
    LET alive(agent) == ~(dict_get(self_terminations, agent, FALSE)
                          \/ dict_get(self_truncations, agent, FALSE))
        kept == SelectSeq(self_agents, alive)
    IN [i \in 1..Len(kept) |-> kept[Len(kept) + 1 - i]]

\* _remove_dead_agents with "and" between the two flags
remove_dead_agents_both_flags(self_agents, self_terminations, self_truncations) ==
    LET alive(agent) == ~(dict_get(self_terminations, agent, FALSE)
                          /\ dict_get(self_truncations, agent, FALSE))
    IN SelectSeq(self_agents, alive)

\* _remove_dead_agents with .get(agent, True): an agent without entry is dead
remove_dead_agents_default_dead(self_agents, self_terminations, self_truncations) ==
    LET alive(agent) == ~(dict_get(self_terminations, agent, TRUE)
                          \/ dict_get(self_truncations, agent, TRUE))
    IN SelectSeq(self_agents, alive)

\* ParallelEnv._remove_dead_agents: the new value of self.agents
remove_dead_agents(self_agents, self_terminations, self_truncations) ==
    LET alive(agent) == ~(dict_get(self_terminations, agent, FALSE)
                          \/ dict_get(self_truncations, agent, FALSE))
    IN SelectSeq(self_agents, alive)

(***************************************************************************)
(* The instance and the value of the last call.                            *)
(***************************************************************************)
\* the fields of the environment instance
Env ==
    [possible_agents |-> possible_agents, agents |-> agents,
     agents_aliased |-> agents_aliased,
     step_count |-> step_count, max_steps |-> max_steps,
     terminations |-> terminations, truncations |-> truncations,
     rewards |-> rewards, infos |-> infos]

\* what a call gave back: the tuple it returned or the exception it raised
Result(op, raised, message, obs, rew, term, trunc, inf) ==
    [op |-> op, raised |-> raised, message |-> message,
     observations |-> obs, rewards |-> rew, terminations |-> term,
     truncations |-> trunc, infos |-> inf]

\* snap holds the instance as it was at the entry of the last call when that
\* call is one that must leave it alone (a step that raised, render, close,
\* state)
NoSnap == [valid |-> FALSE, env |-> EmptyDict]

(***************************************************************************)
(* SimpleParallelEnv                                                       *)
(***************************************************************************)
\* SimpleParallelEnv.__init__
SimpleParallelEnv_init ==
    LET roster == Roster
    IN [possible_agents |-> roster, agents |-> roster,
        agents_aliased |-> FALSE,
        step_count |-> 0, max_steps |-> DefaultMaxSteps,
        terminations |-> [agent \in Range(roster) |-> FALSE],
        truncations |-> [agent \in Range(roster) |-> FALSE],
        rewards |-> [agent \in Range(roster) |-> 0],
        infos |-> [agent \in Range(roster) |-> EmptyDict]]

\* the reward branch with the sign of the "bad" reward lost
reward_of_bad_positive(action) ==
    IF action = "good" THEN 1
    ELSE IF action = "bad" THEN 1
    ELSE 0

\* the reward branch of SimpleParallelEnv.step
reward_of(action) ==
    IF action = "good" THEN 1
    ELSE IF action = "bad" THEN -1
    ELSE 0

\* step that counts the call before it validates the mapping
SimpleParallelEnv_step_count_first(self, actions) ==
    LET v == validate_actions(self.agents, actions)
        step_count_ == self.step_count + 1
    IN IF v.raised # "none"
       THEN [env |-> [self EXCEPT !.step_count = step_count_],
             ret |-> Result("step", v.raised, v.message, EmptyDict,
                            EmptyDict, EmptyDict, EmptyDict, EmptyDict)]
       ELSE
        LET observations_ ==
                [agent \in DOMAIN actions |->
                    <<"Step ", step_count_, " result for ", agent,
                      " after ", actions[agent]>>]
            rewards_ == [agent \in DOMAIN actions |-> reward_of(actions[agent])]
            terminations_ ==
                [agent \in DOMAIN actions |-> actions[agent] = "terminate"]
            infos_ == [agent \in DOMAIN actions |-> [step |-> step_count_]]
            truncations_ ==
                [agent \in Range(self.agents) |-> step_count_ >= self.max_steps]
        IN [env |-> [self EXCEPT
                        !.step_count = step_count_,
                        !.terminations = terminations_,
                        !.truncations = truncations_,
                        !.rewards = rewards_,
                        !.infos = infos_,
                        !.agents = remove_dead_agents(self.agents,
                                        terminations_, truncations_)],
            ret |-> Result("step", "none", <<>>, observations_, rewards_,
                           terminations_, truncations_, infos_)]

\* step that removes the terminated agents before it fills the truncations
SimpleParallelEnv_step_prune_first(self, actions) ==
    LET v == validate_actions(self.agents, actions)
    IN IF v.raised # "none"
       THEN [env |-> self,
             ret |-> Result("step", v.raised, v.message, EmptyDict,
                            EmptyDict, EmptyDict, EmptyDict, EmptyDict)]
       ELSE
        LET observations_ ==
                [agent \in DOMAIN actions |->
                    <<"Step ", self.step_count + 1, " result for ", agent,
                      " after ", actions[agent]>>]
            rewards_ == [agent \in DOMAIN actions |-> reward_of(actions[agent])]
            terminations_ ==
                [agent \in DOMAIN actions |-> actions[agent] = "terminate"]
            infos_ ==
                [agent \in DOMAIN actions |-> [step |-> self.step_count + 1]]
            step_count_ == self.step_count + 1
            pruned == remove_dead_agents(self.agents, terminations_, EmptyDict)
            truncations_ ==
                [agent \in Range(pruned) |-> step_count_ >= self.max_steps]
        IN [env |-> [self EXCEPT
                        !.step_count = step_count_,
                        !.terminations = terminations_,
                        !.truncations = truncations_,
                        !.rewards = rewards_,
                        !.infos = infos_,
                        !.agents = remove_dead_agents(pruned,
                                        terminations_, truncations_)],
            ret |-> Result("step", "none", <<>>, observations_, rewards_,
                           terminations_, truncations_, infos_)]

\* step that truncates with "self.step_count > self.max_steps"
SimpleParallelEnv_step_limit_exceeded(self, actions) ==
    LET v == validate_actions(self.agents, actions)
    IN IF v.raised # "none"
       THEN [env |-> self,
             ret |-> Result("step", v.raised, v.message, EmptyDict,
                            EmptyDict, EmptyDict, EmptyDict, EmptyDict)]
       ELSE
        LET observations_ ==
                [agent \in DOMAIN actions |->
                    <<"Step ", self.step_count + 1, " result for ", agent,
                      " after ", actions[agent]>>]
            rewards_ == [agent \in DOMAIN actions |-> reward_of(actions[agent])]
            terminations_ ==
                [agent \in DOMAIN actions |-> actions[agent] = "terminate"]
            infos_ ==
                [agent \in DOMAIN actions |-> [step |-> self.step_count + 1]]
            step_count_ == self.step_count + 1
            truncations_ ==
                [agent \in Range(self.agents) |-> step_count_ > self.max_steps]
        IN [env |-> [self EXCEPT
                        !.step_count = step_count_,
                        !.terminations = terminations_,
                        !.truncations = truncations_,
                        !.rewards = rewards_,
                        !.infos = infos_,
                        !.agents_aliased = FALSE,
                        !.agents = remove_dead_agents(self.agents,
                                        terminations_, truncations_)],
            ret |-> Result("step", "none", <<>>, observations_, rewards_,
                           terminations_, truncations_, infos_)]

\* step whose info reports self.step_count instead of self.step_count + 1
SimpleParallelEnv_step_info_before(self, actions) ==
    LET v == validate_actions(self.agents, actions)
    IN IF v.raised # "none"
       THEN [env |-> self,
             ret |-> Result("step", v.raised, v.message, EmptyDict,
                            EmptyDict, EmptyDict, EmptyDict, EmptyDict)]
       ELSE
        LET observations_ ==
                [agent \in DOMAIN actions |->
                    <<"Step ", self.step_count + 1, " result for ", agent,
                      " after ", actions[agent]>>]
            rewards_ == [agent \in DOMAIN actions |-> reward_of(actions[agent])]
            terminations_ ==
                [agent \in DOMAIN actions |-> actions[agent] = "terminate"]
            infos_ ==
                [agent \in DOMAIN actions |-> [step |-> self.step_count]]
            step_count_ == self.step_count + 1
            truncations_ ==
                [agent \in Range(self.agents) |-> step_count_ >= self.max_steps]
        IN [env |-> [self EXCEPT
                        !.step_count = step_count_,
                        !.terminations = terminations_,
                        !.truncations = truncations_,
                        !.rewards = rewards_,
                        !.infos = infos_,
                        !.agents_aliased = FALSE,
                        !.agents = remove_dead_agents(self.agents,
                                        terminations_, truncations_)],
            ret |-> Result("step", "none", <<>>, observations_, rewards_,
                           terminations_, truncations_, infos_)]

\* step that returns five empty mappings at once when no agent is active
SimpleParallelEnv_step_idle_when_empty(self, actions) ==
    LET v == validate_actions(self.agents, actions)
    IN IF self.agents = <<>>
       THEN [env |-> self,
             ret |-> Result("step", "none", <<>>, EmptyDict, EmptyDict,
                            EmptyDict, EmptyDict, EmptyDict)]
       ELSE IF v.raised # "none"
       THEN [env |-> self,
             ret |-> Result("step", v.raised, v.message, EmptyDict,
                            EmptyDict, EmptyDict, EmptyDict, EmptyDict)]
       ELSE
        LET observations_ ==
                [agent \in DOMAIN actions |->
                    <<"Step ", self.step_count + 1, " result for ", agent,
                      " after ", actions[agent]>>]
            rewards_ == [agent \in DOMAIN actions |-> reward_of(actions[agent])]
            terminations_ ==
                [agent \in DOMAIN actions |-> actions[agent] = "terminate"]
            infos_ ==
                [agent \in DOMAIN actions |-> [step |-> self.step_count + 1]]
            step_count_ == self.step_count + 1
            truncations_ ==
                [agent \in Range(self.agents) |-> step_count_ >= self.max_steps]
        IN [env |-> [self EXCEPT
                        !.step_count = step_count_,
                        !.terminations = terminations_,
                        !.truncations = truncations_,
                        !.rewards = rewards_,
                        !.infos = infos_,
                        !.agents_aliased = FALSE,
                        !.agents = remove_dead_agents(self.agents,
                                        terminations_, truncations_)],
            ret |-> Result("step", "none", <<>>, observations_, rewards_,
                           terminations_, truncations_, infos_)]

\* SimpleParallelEnv.step: the instance after the call and what it gave back
SimpleParallelEnv_step(self, actions) ==
    LET v == validate_actions(self.agents, actions)
    IN IF v.raised # "none"
       THEN [env |-> self,
             ret |-> Result("step", v.raised, v.message, EmptyDict,
                            EmptyDict, EmptyDict, EmptyDict, EmptyDict)]
       ELSE
        LET observations_ ==
                [agent \in DOMAIN actions |->
                    <<"Step ", self.step_count + 1, " result for ", agent,
                      " after ", actions[agent]>>]
            rewards_ == [agent \in DOMAIN actions |-> reward_of(actions[agent])]
            terminations_ ==
                [agent \in DOMAIN actions |-> actions[agent] = "terminate"]
            infos_ ==
                [agent \in DOMAIN actions |-> [step |-> self.step_count + 1]]
            step_count_ == self.step_count + 1
            truncations_ ==
                [agent \in Range(self.agents) |-> step_count_ >= self.max_steps]
        IN [env |-> [self EXCEPT
                        !.step_count = step_count_,
                        !.terminations = terminations_,
                        !.truncations = truncations_,
                        !.rewards = rewards_,
                        !.infos = infos_,
                        !.agents_aliased = FALSE,
                        !.agents = remove_dead_agents(self.agents,
                                        terminations_, truncations_)],
            ret |-> Result("step", "none", <<>>, observations_, rewards_,
                           terminations_, truncations_, infos_)]

\* MultiAgentEnv.reset, reached through super().reset(seed): the roster is
\* reinstalled and the derived signal state is cleared
MultiAgentEnv_reset(self, seed) ==
    [self EXCEPT !.agents = self.possible_agents,
                 !.agents_aliased = FALSE,
                 !.terminations = EmptyDict,
                 !.truncations = EmptyDict,
                 !.rewards = EmptyDict,
                 !.infos = EmptyDict]

\* reset that builds its result from self.agents before reinstalling the roster
SimpleParallelEnv_reset_stale_keys(self, seed) ==
    LET base == MultiAgentEnv_reset(self, seed)
        agents_ == base.possible_agents
        observations_ ==
            [agent \in Range(self.agents) |->
                <<"Initial observation for ", agent>>]
        infos_ == [agent \in Range(self.agents) |-> [initial |-> TRUE]]
    IN [env |-> [base EXCEPT !.agents = agents_, !.step_count = 0],
        ret |-> Result("reset", "none", <<>>, observations_, EmptyDict,
                       EmptyDict, EmptyDict, infos_)]

\* reset without the super().reset(seed) call
SimpleParallelEnv_reset_no_super(self, seed) ==
    LET agents_ == self.possible_agents
        observations_ ==
            [agent \in Range(agents_) |-> <<"Initial observation for ", agent>>]
        infos_ == [agent \in Range(agents_) |-> [initial |-> TRUE]]
    IN [env |-> [self EXCEPT !.agents = agents_, !.step_count = 0],
        ret |-> Result("reset", "none", <<>>, observations_, EmptyDict,
                       EmptyDict, EmptyDict, infos_)]

\* reset without "self.step_count = 0"
SimpleParallelEnv_reset_keeps_count(self, seed) ==
    LET base == MultiAgentEnv_reset(self, seed)
        agents_ == base.possible_agents
        observations_ ==
            [agent \in Range(agents_) |-> <<"Initial observation for ", agent>>]
        infos_ == [agent \in Range(agents_) |-> [initial |-> TRUE]]
    IN [env |-> [base EXCEPT !.agents = agents_],
        ret |-> Result("reset", "none", <<>>, observations_, EmptyDict,
                       EmptyDict, EmptyDict, infos_)]

\* reset with "self.agents = self.possible_agents", without .copy()
SimpleParallelEnv_reset_alias(self, seed) ==
    LET base == MultiAgentEnv_reset(self, seed)
        agents_ == base.possible_agents
        observations_ ==
            [agent \in Range(agents_) |-> <<"Initial observation for ", agent>>]
        infos_ == [agent \in Range(agents_) |-> [initial |-> TRUE]]
    IN [env |-> [base EXCEPT !.agents = agents_, !.agents_aliased = TRUE,
                             !.step_count = 0],
        ret |-> Result("reset", "none", <<>>, observations_, EmptyDict,
                       EmptyDict, EmptyDict, infos_)]

\* SimpleParallelEnv.reset: the instance after the call and what it gave back
SimpleParallelEnv_reset(self, seed) ==
    LET base == MultiAgentEnv_reset(self, seed)
        agents_ == base.possible_agents
        observations_ ==
            [agent \in Range(agents_) |-> <<"Initial observation for ", agent>>]
        infos_ == [agent \in Range(agents_) |-> [initial |-> TRUE]]
    IN [env |-> [base EXCEPT !.agents = agents_, !.agents_aliased = FALSE,
                             !.step_count = 0],
        ret |-> Result("reset", "none", <<>>, observations_, EmptyDict,
                       EmptyDict, EmptyDict, infos_)]

\* the agents whose stored termination or truncation flag is true
Flagged(self) ==
    {agent \in AgentUniverse :
        dict_get(self.terminations, agent, FALSE)
        \/ dict_get(self.truncations, agent, FALSE)}

\* ParallelEnv.render: returns None
ParallelEnv_render(self) ==
    [env |-> self,
     ret |-> Result("render", "none", <<>>, EmptyDict, EmptyDict, EmptyDict,
                    EmptyDict, EmptyDict)]

\* close that drops the active agents
ParallelEnv_close_clears(self) ==
    [env |-> [self EXCEPT !.agents = <<>>],
     ret |-> Result("close", "none", <<>>, EmptyDict, EmptyDict, EmptyDict,
                    EmptyDict, EmptyDict)]

\* ParallelEnv.close: pass
ParallelEnv_close(self) ==
    [env |-> self,
     ret |-> Result("close", "none", <<>>, EmptyDict, EmptyDict, EmptyDict,
                    EmptyDict, EmptyDict)]

\* SimpleParallelEnv.state: a dict of the counter and copies of three fields
SimpleParallelEnv_state(self) ==
    [env |-> self,
     ret |-> [op |-> "state", raised |-> "none", message |-> <<>>,
              observations |-> EmptyDict, rewards |-> EmptyDict,
              terminations |-> EmptyDict, truncations |-> EmptyDict,
              infos |-> EmptyDict,
              value |-> [step_count |-> self.step_count,
                         agents |-> self.agents,
                         terminations |-> self.terminations,
                         truncations |-> self.truncations]]]

\* env._remove_dead_agents(): self.agents is bound to the new list, nothing
\* is returned
ParallelEnv_remove_dead_agents(self) ==
    [env |-> [self EXCEPT
                !.agents = remove_dead_agents(self.agents, self.terminations,
                                              self.truncations),
                !.agents_aliased = FALSE],
     ret |-> Result("_remove_dead_agents", "none", <<>>, EmptyDict, EmptyDict,
                    EmptyDict, EmptyDict, EmptyDict)]

\* the base step with the two statements of its body in the other order
ParallelEnv_step_raise_first(self, actions) ==
    [env |-> self,
     ret |-> Result("base_step", "NotImplementedError", <<>>, EmptyDict,
                    EmptyDict, EmptyDict, EmptyDict, EmptyDict)]

\* ParallelEnv.step, the body a subclass reaches through super().step(actions)
ParallelEnv_step(self, actions) ==
    LET v == validate_actions(self.agents, actions)
    IN IF v.raised # "none"
       THEN [env |-> self,
             ret |-> Result("base_step", v.raised, v.message, EmptyDict,
                            EmptyDict, EmptyDict, EmptyDict, EmptyDict)]
       ELSE [env |-> self,
             ret |-> Result("base_step", "NotImplementedError", <<>>,
                            EmptyDict, EmptyDict, EmptyDict, EmptyDict,
                            EmptyDict)]

(***************************************************************************)
(* Operations                                                              *)
(***************************************************************************)
Install(env) ==
    /\ possible_agents' = env.possible_agents
    /\ agents' = env.agents
    /\ agents_aliased' = env.agents_aliased
    /\ step_count' = env.step_count
    /\ max_steps' = env.max_steps
    /\ terminations' = env.terminations
    /\ truncations' = env.truncations
    /\ rewards' = env.rewards
    /\ infos' = env.infos

Init ==
    /\ possible_agents = SimpleParallelEnv_init.possible_agents
    /\ agents = SimpleParallelEnv_init.agents
    /\ agents_aliased = SimpleParallelEnv_init.agents_aliased
    /\ step_count = SimpleParallelEnv_init.step_count
    /\ max_steps = SimpleParallelEnv_init.max_steps
    /\ terminations = SimpleParallelEnv_init.terminations
    /\ truncations = SimpleParallelEnv_init.truncations
    /\ rewards = SimpleParallelEnv_init.rewards
    /\ infos = SimpleParallelEnv_init.infos
    /\ ret = Result("init", "none", <<>>, EmptyDict, EmptyDict, EmptyDict,
                    EmptyDict, EmptyDict)
    /\ entry_agents = <<>>
    /\ entry_flagged = {}
    /\ entry_step_count = 0
    /\ action_agents = {}
    /\ accepted_actions = EmptyDict
    /\ successful_steps = 0
    /\ snap = NoSnap

\* env.step(actions)
Step ==
    /\ step_count < MaxStepCount
    /\ \E actions \in ActionMappings :
          LET r == SimpleParallelEnv_step(Env, actions)
          IN /\ Install(r.env)
             /\ ret' = r.ret
             /\ entry_agents' = agents
             /\ entry_flagged' = Flagged(Env)
             /\ entry_step_count' = step_count
             /\ action_agents' = DOMAIN actions
             /\ accepted_actions' = IF r.ret.raised = "none"
                                    THEN actions ELSE EmptyDict
             /\ successful_steps' = IF r.ret.raised = "none"
                                    THEN successful_steps + 1
                                    ELSE successful_steps
             /\ snap' = IF r.ret.raised # "none"
                        THEN [valid |-> TRUE, env |-> Env]
                        ELSE NoSnap

\* env.reset(seed)
Reset ==
    \E seed \in Seeds :
        LET r == SimpleParallelEnv_reset(Env, seed)
        IN /\ Install(r.env)
           /\ ret' = r.ret
           /\ entry_agents' = agents
           /\ entry_flagged' = Flagged(Env)
           /\ entry_step_count' = step_count
           /\ action_agents' = {}
           /\ accepted_actions' = EmptyDict
           /\ successful_steps' = 0
           /\ snap' = NoSnap

\* env.max_steps = n, assigned by the harness before the first step of an
\* episode
SetMaxSteps ==
    /\ step_count = 0
    /\ \E n \in 1..MaxStepsBound :
          /\ max_steps' = n
          /\ ret' = Result("assign", "none", <<>>, EmptyDict, EmptyDict,
                           EmptyDict, EmptyDict, EmptyDict)
          /\ entry_agents' = agents
          /\ entry_flagged' = Flagged(Env)
          /\ entry_step_count' = step_count
          /\ action_agents' = {}
          /\ accepted_actions' = EmptyDict
          /\ snap' = NoSnap
          /\ UNCHANGED <<possible_agents, agents, agents_aliased, step_count,
                         terminations, truncations, rewards, infos,
                         successful_steps>>

\* a call that takes no argument and gave back r
NoArgCall(r) ==
    /\ Install(r.env)
    /\ ret' = r.ret
    /\ entry_agents' = agents
    /\ entry_flagged' = Flagged(Env)
    /\ entry_step_count' = step_count
    /\ action_agents' = {}
    /\ accepted_actions' = EmptyDict
    /\ snap' = [valid |-> TRUE, env |-> Env]
    /\ UNCHANGED successful_steps

\* env.render()
Render == NoArgCall(ParallelEnv_render(Env))

\* env.close()
Close == NoArgCall(ParallelEnv_close(Env))

\* env.state()
State == NoArgCall(SimpleParallelEnv_state(Env))

Next == Step \/ Reset \/ SetMaxSteps \/ Render \/ Close \/ State

Spec == Init /\ [][Next]_vars

(***************************************************************************)
(* Reading a result.                                                       *)
(***************************************************************************)
StepRaised == ret.op = "step" /\ ret.raised = "ValueError"
StepReturned == ret.op = "step" /\ ret.raised = "none"
ResetReturned == ret.op = "reset" /\ ret.raised = "none"

\* position of the first token tok in msg, 0 when msg has no such token
TokenIndex(msg, tok) ==
    IF \E i \in 1..Len(msg) : msg[i] = tok
    THEN CHOOSE i \in 1..Len(msg) :
            msg[i] = tok /\ \A j \in 1..(i - 1) : msg[j] # tok
    ELSE 0

RECURSIVE ListItems(_, _)
\* the items of the printed list whose first item stands at position j
ListItems(msg, j) ==
    IF j > Len(msg) \/ msg[j] = "]" THEN <<>>
    ELSE IF msg[j] = ", " THEN ListItems(msg, j + 1)
    ELSE <<msg[j]>> \o ListItems(msg, j + 1)

HasClause(msg, label) == TokenIndex(msg, label) # 0

\* the identifiers listed under the clause label of msg
ClauseAgents(msg, label) ==
    IF HasClause(msg, label)
    THEN ListItems(msg, TokenIndex(msg, label) + 2)
    ELSE <<>>

\* l lists exactly the members of S, once each, in ascending str order
IsSortedListOf(l, S) ==
    /\ Range(l) = S
    /\ Len(l) = Cardinality(S)
    /\ \A i, j \in 1..Len(l) : i < j => str_lt(l[i], l[j])

\* sub is seq with some items left out, the others in their order
IsFilterOf(sub, seq) ==
    \E keep \in SUBSET (1..Len(seq)) :
        sub = SelectSeq(seq, LAMBDA x :
                \E i \in keep : seq[i] = x)

NoDuplicates(seq) == \A i, j \in 1..Len(seq) : i # j => seq[i] # seq[j]

\* agent has a flag in d and the flag is false
FlagFalse(d, agent) == agent \in DOMAIN d /\ ~d[agent]

(***************************************************************************)
(* C1. step raises the mismatch ValueError if and only if the key set of   *)
(* the action mapping differs from the set of the agents active at call    *)
(* entry; with equal sets nothing is raised and the step goes on to return *)
(* its result.                                                             *)
(***************************************************************************)
C1_ValidationIff ==
    ret.op = "step" =>
        /\ ret.raised = "ValueError" <=> action_agents # Range(entry_agents)
        /\ action_agents = Range(entry_agents) =>
              /\ ret.raised = "none"
              /\ DOMAIN ret.observations = action_agents

\* a mapping that only lacks an agent is refused after an agent was removed
C1_Witness ==
    /\ StepRaised
    /\ Len(entry_agents) = 2
    /\ action_agents \subseteq Range(entry_agents)
    /\ action_agents # Range(entry_agents)

(***************************************************************************)
(* C2. After a successful step the active agents are exactly the agents    *)
(* active at call entry whose termination and truncation flags in the      *)
(* step's result are both false.                                           *)
(***************************************************************************)
C2_Pruning ==
    StepReturned =>
        /\ Range(agents) \subseteq Range(entry_agents)
        /\ \A agent \in Range(entry_agents) :
              agent \in Range(agents) <=>
                  /\ FlagFalse(ret.terminations, agent)
                  /\ FlagFalse(ret.truncations, agent)

\* the step limit truncates the agents that one earlier termination left
C2_Witness ==
    /\ StepReturned
    /\ Len(entry_agents) = 2
    /\ agents = <<>>
    /\ \A agent \in Range(entry_agents) :
          ret.truncations[agent] /\ ~ret.terminations[agent]

(***************************************************************************)
(* C3. A step that raises the mismatch error changes no field of the       *)
(* instance, and the successful step that follows it gives the instance    *)
(* and the result that the same mapping gives from the state before the    *)
(* failed call.                                                            *)
(***************************************************************************)
C3_FailedStepNoEffect ==
    [][ /\ (ret'.op = "step" /\ ret'.raised = "ValueError") => Env' = Env
        /\ (snap.valid /\ ret'.op = "step" /\ ret'.raised = "none") =>
              \E actions \in [action_agents' -> ActionUniverse] :
                  SimpleParallelEnv_step(snap.env, actions)
                      = [env |-> Env', ret |-> ret'] ]_vars

\* a failed step after an agent was removed and the counter advanced
C3_Witness ==
    /\ StepRaised
    /\ snap.valid
    /\ step_count > 0
    /\ Len(agents) < Len(possible_agents)

C5_ResultKeys ==
    StepReturned =>
        /\ DOMAIN ret.observations = Range(entry_agents)
        /\ DOMAIN ret.rewards = Range(entry_agents)
        /\ DOMAIN ret.terminations = Range(entry_agents)
        /\ DOMAIN ret.truncations = Range(entry_agents)
        /\ DOMAIN ret.infos = Range(entry_agents)

\* a step that removes an agent still reports it
C5_Witness ==
    /\ StepReturned
    /\ Len(entry_agents) = 3
    /\ Len(agents) = 2
    /\ DOMAIN ret.truncations = Range(entry_agents)

(***************************************************************************)
(* C6. A call other than reset never adds an agent to the agents active   *)
(* when it was entered, so a removed agent stays out until the next reset; *)
(* a step whose mapping has an action for a removed agent raises the       *)
(* mismatch error and lists the agent under the non-active clause; a step  *)
(* is accepted only with actions for exactly the remaining agents.         *)
(***************************************************************************)
C6_RemovedIsTerminal ==
    (ret.op # "reset" /\ ret.op # "init") =>
        /\ Range(agents) \subseteq Range(entry_agents)
        /\ ret.op = "step" =>
              /\ \A agent \in Range(possible_agents) \ Range(entry_agents) :
                    agent \in action_agents =>
                        /\ ret.raised = "ValueError"
                        /\ agent \in Range(ClauseAgents(ret.message,
                                                        ExtraLabel))
              /\ ret.raised = "none" => action_agents = Range(entry_agents)

\* an action for a removed agent, next to actions for all the remaining ones
C6_Witness ==
    /\ StepRaised
    /\ Range(entry_agents) # Range(possible_agents)
    /\ action_agents = Range(possible_agents)

(***************************************************************************)
(* C7. The error text has the "Missing actions for agents" clause exactly  *)
(* when an active agent has no action, and the clause lists every such     *)
(* agent in sorted order; it has the "Actions provided for non-active      *)
(* agents" clause exactly when a key is not active, listing every such     *)
(* key in sorted order; with both, the missing clause comes first and the  *)
(* two are joined by ". " into one message.                                *)
(***************************************************************************)
C7_ErrorText ==
    StepRaised =>
        LET missing == Range(entry_agents) \ action_agents
            extra == action_agents \ Range(entry_agents)
            msg == ret.message
        IN /\ HasClause(msg, MissingLabel) <=> missing # {}
           /\ HasClause(msg, ExtraLabel) <=> extra # {}
           /\ IsSortedListOf(ClauseAgents(msg, MissingLabel), missing)
           /\ IsSortedListOf(ClauseAgents(msg, ExtraLabel), extra)
           /\ (missing # {} /\ extra # {}) =>
                 /\ TokenIndex(msg, MissingLabel) = 1
                 /\ TokenIndex(msg, ExtraLabel) > 1
                 /\ msg[TokenIndex(msg, ExtraLabel) - 1] = ". "
                 /\ Cardinality({i \in 1..Len(msg) : msg[i] = ". "}) = 1

\* two agents missing and a non-active key in the same mapping
C7_Witness ==
    /\ StepRaised
    /\ Cardinality(Range(entry_agents) \ action_agents) = 2
    /\ action_agents \ Range(entry_agents) # {}

C10_FilteredOrder ==
    /\ IsFilterOf(agents, possible_agents)
    /\ NoDuplicates(agents)
    /\ (/\ StepReturned
        /\ entry_agents = <<"agent1", "agent2", "agent3">>
        /\ {agent \in DOMAIN ret.terminations : ret.terminations[agent]}
              = {"agent1"}
        /\ \A agent \in DOMAIN ret.truncations : ~ret.truncations[agent])
       => agents = <<"agent2", "agent3">>

\* agent1 alone terminated in a step of the full roster
C10_Witness ==
    /\ StepReturned
    /\ entry_agents = <<"agent1", "agent2", "agent3">>
    /\ ret.terminations["agent1"]
    /\ Len(agents) = 2

C14_RewardAndTermination ==
    StepReturned =>
        \A agent \in Range(entry_agents) :
            /\ agent \in DOMAIN accepted_actions
            /\ agent \in DOMAIN ret.rewards
            /\ agent \in DOMAIN ret.terminations
            /\ accepted_actions[agent] = "good" => ret.rewards[agent] = 1
            /\ accepted_actions[agent] = "bad" => ret.rewards[agent] = -1
            /\ accepted_actions[agent] \notin {"good", "bad"} =>
                  ret.rewards[agent] = 0
            /\ ret.terminations[agent] <=> accepted_actions[agent] = "terminate"

\* good, bad and terminate in one step of the three agents
C14_Witness ==
    /\ StepReturned
    /\ accepted_actions =
          [agent1 |-> "good", agent2 |-> "bad", agent3 |-> "terminate"]
    /\ ret.rewards = [agent1 |-> 1, agent2 |-> -1, agent3 |-> 0]
    /\ agents = <<"agent1", "agent2">>

(***************************************************************************)
(* C15. render, close and state of the reference environment return        *)
(* without raising at any point of an episode and leave every field of     *)
(* the instance as it was at the entry of the call, so the reset and every *)
(* step made next give what they would have given without the call; state  *)
(* reports the counter, the active agents and the stored flags.            *)
(***************************************************************************)
C15_QueriesNoEffect ==
    ret.op \in {"render", "close", "state"} =>
        /\ ret.raised = "none"
        /\ snap.valid
        /\ Env = snap.env
        /\ \A seed \in Seeds :
              SimpleParallelEnv_reset(Env, seed)
                  = SimpleParallelEnv_reset(snap.env, seed)
        /\ \A actions \in ActionMappings :
              SimpleParallelEnv_step(Env, actions)
                  = SimpleParallelEnv_step(snap.env, actions)
        /\ ret.op = "state" =>
              ret.value = [step_count |-> step_count, agents |-> agents,
                           terminations |-> terminations,
                           truncations |-> truncations]

\* close called after every agent was removed
C15_Witness ==
    /\ ret.op = "close"
    /\ agents = <<>>
    /\ step_count > 0
    /\ Flagged(Env) # {}

(***************************************************************************)
(* C16. With no active agent, step with the empty mapping succeeds: it     *)
(* returns five empty mappings, leaves the active list empty and advances  *)
(* the step counter by one; step with a non-empty mapping raises the       *)
(* mismatch error with the non-active clause alone; the active list stays  *)
(* empty through every call but reset.                                     *)
(***************************************************************************)
C16_EmptyEpisode ==
    (entry_agents = <<>> /\ ret.op \notin {"init", "reset"}) =>
        /\ agents = <<>>
        /\ (ret.op = "step" /\ action_agents = {}) =>
              /\ ret.raised = "none"
              /\ ret.observations = EmptyDict
              /\ ret.rewards = EmptyDict
              /\ ret.terminations = EmptyDict
              /\ ret.truncations = EmptyDict
              /\ ret.infos = EmptyDict
              /\ step_count = entry_step_count + 1
        /\ (ret.op = "step" /\ action_agents # {}) =>
              /\ ret.raised = "ValueError"
              /\ ~HasClause(ret.message, MissingLabel)
              /\ TokenIndex(ret.message, ExtraLabel) = 1
              /\ Range(ClauseAgents(ret.message, ExtraLabel)) = action_agents
              /\ step_count = entry_step_count

\* the empty mapping accepted after every agent was removed
C16_Witness ==
    /\ StepReturned
    /\ entry_agents = <<>>
    /\ action_agents = {}
    /\ step_count = 2
    /\ entry_step_count = 1

(***************************************************************************)
(* C17. With step limit max_steps no agent is active once max_steps        *)
(* successful steps were made since reset, whatever the actions: the step  *)
(* that brings the count to max_steps truncates every agent still active   *)
(* and the removal drops them all.                                         *)
(***************************************************************************)
C17_EpisodeEnds ==
    /\ successful_steps >= max_steps => agents = <<>>
    /\ (StepReturned /\ successful_steps = max_steps) =>
          \A agent \in Range(entry_agents) :
              /\ agent \in DOMAIN ret.truncations
              /\ ret.truncations[agent]
              /\ agent \notin Range(agents)

\* the limit ends an episode in which no agent ever terminated
C17_Witness ==
    /\ StepReturned
    /\ successful_steps = 2
    /\ max_steps = 2
    /\ Len(entry_agents) = 3
    /\ \A agent \in Range(entry_agents) : ~ret.terminations[agent]
    /\ agents = <<>>

(***************************************************************************)
(* _remove_dead_agents on its own: the active list and the two stored flag *)
(* mappings it reads are drawn from every filtered roster and every        *)
(* partial mapping of the roster to booleans.                              *)
(***************************************************************************)
\* the lists that keep some agents of the roster in its order
FilteredRosters ==
    {SelectSeq(Roster, LAMBDA agent : agent \in S) : S \in SUBSET Range(Roster)}

\* the dicts from some agents of the roster to a flag
FlagMappings == UNION {[S -> BOOLEAN] : S \in SUBSET Range(Roster)}

InitRemove ==
    /\ possible_agents = SimpleParallelEnv_init.possible_agents
    /\ agents \in FilteredRosters
    /\ agents_aliased = FALSE
    /\ step_count = SimpleParallelEnv_init.step_count
    /\ max_steps = SimpleParallelEnv_init.max_steps
    /\ terminations \in FlagMappings
    /\ truncations \in FlagMappings
    /\ rewards = SimpleParallelEnv_init.rewards
    /\ infos = SimpleParallelEnv_init.infos
    /\ ret = Result("init", "none", <<>>, EmptyDict, EmptyDict, EmptyDict,
                    EmptyDict, EmptyDict)
    /\ entry_agents = <<>>
    /\ entry_flagged = {}
    /\ entry_step_count = 0
    /\ action_agents = {}
    /\ accepted_actions = EmptyDict
    /\ successful_steps = 0
    /\ snap = NoSnap

\* env._remove_dead_agents()
RemoveDeadAgents ==
    LET r == ParallelEnv_remove_dead_agents(Env)
    IN /\ Install(r.env)
       /\ ret' = r.ret
       /\ entry_agents' = agents
       /\ entry_flagged' = Flagged(Env)
       /\ entry_step_count' = step_count
       /\ action_agents' = {}
       /\ accepted_actions' = EmptyDict
       /\ snap' = [valid |-> TRUE, env |-> Env]
       /\ UNCHANGED successful_steps

NextRemove == RemoveDeadAgents

SpecRemove == InitRemove /\ [][NextRemove]_vars

\* the stored flag of agent in d is true
StoredTrue(d, agent) == agent \in DOMAIN d /\ d[agent]

(***************************************************************************)
(* C18. _remove_dead_agents keeps an active agent exactly when neither of  *)
(* its stored flags is true, an agent without entry in the two stored      *)
(* mappings being kept; the agents kept stay in their order; a second      *)
(* removal right after the first changes nothing; the removal changes no   *)
(* field but agents, the stored mappings keeping all their entries.        *)
(***************************************************************************)
C18_RemoveDeadAgents ==
    ret.op = "_remove_dead_agents" =>
        /\ \A agent \in Range(entry_agents) :
              agent \in Range(agents) <=>
                  ~(StoredTrue(terminations, agent)
                    \/ StoredTrue(truncations, agent))
        /\ \A agent \in Range(entry_agents) :
              agent \notin (DOMAIN terminations \cup DOMAIN truncations)
                  => agent \in Range(agents)
        /\ IsFilterOf(agents, entry_agents)
        /\ ParallelEnv_remove_dead_agents(Env).env = Env
        /\ snap.valid
        /\ Env = [snap.env EXCEPT !.agents = agents]

\* an agent without any stored flag is kept while flagged agents are dropped
C18_Witness ==
    /\ ret.op = "_remove_dead_agents"
    /\ entry_agents = Roster
    /\ Len(agents) = 1
    /\ agents[1] \notin (DOMAIN terminations \cup DOMAIN truncations)
    /\ \E agent \in DOMAIN terminations : terminations[agent]
    /\ \E agent \in DOMAIN truncations : truncations[agent]

(***************************************************************************)
(* The body of ParallelEnv.step on its own, entered on an instance as the  *)
(* construction or one accepted step of the reference environment leaves   *)
(* it.                                                                     *)
(***************************************************************************)
\* the instances the base body is entered on
BaseStepInstances ==
    {SimpleParallelEnv_init}
    \cup {SimpleParallelEnv_step(SimpleParallelEnv_init, actions).env :
            actions \in [Range(Roster) -> ActionUniverse]}

InitBase ==
    /\ \E self \in BaseStepInstances :
          /\ possible_agents = self.possible_agents
          /\ agents = self.agents
          /\ agents_aliased = self.agents_aliased
          /\ step_count = self.step_count
          /\ max_steps = self.max_steps
          /\ terminations = self.terminations
          /\ truncations = self.truncations
          /\ rewards = self.rewards
          /\ infos = self.infos
    /\ ret = Result("init", "none", <<>>, EmptyDict, EmptyDict, EmptyDict,
                    EmptyDict, EmptyDict)
    /\ entry_agents = <<>>
    /\ entry_flagged = {}
    /\ entry_step_count = 0
    /\ action_agents = {}
    /\ accepted_actions = EmptyDict
    /\ successful_steps = 0
    /\ snap = NoSnap

\* ParallelEnv.step(env, actions)
BaseStep ==
    \E actions \in ActionMappings :
        LET r == ParallelEnv_step(Env, actions)
        IN /\ Install(r.env)
           /\ ret' = r.ret
           /\ entry_agents' = agents
           /\ entry_flagged' = Flagged(Env)
           /\ entry_step_count' = step_count
           /\ action_agents' = DOMAIN actions
           /\ accepted_actions' = EmptyDict
           /\ snap' = [valid |-> TRUE, env |-> Env]
           /\ UNCHANGED successful_steps

NextBase == BaseStep

SpecBase == InitBase /\ [][NextBase]_vars

(***************************************************************************)
(* C19. The base step body validates first: with a key set that differs    *)
(* from the active agents it raises the mismatch ValueError, and only with *)
(* a matching key set it raises NotImplementedError; either way it returns *)
(* no per-agent result and leaves every field of the instance as it was.   *)
(***************************************************************************)
C19_BaseStepValidatesFirst ==
    ret.op = "base_step" =>
        /\ action_agents # Range(entry_agents) =>
              /\ ret.raised = "ValueError"
              /\ HasClause(ret.message, MissingLabel)
                    \/ HasClause(ret.message, ExtraLabel)
        /\ action_agents = Range(entry_agents) =>
              ret.raised = "NotImplementedError"
        /\ ret.observations = EmptyDict
        /\ ret.rewards = EmptyDict
        /\ ret.terminations = EmptyDict
        /\ ret.truncations = EmptyDict
        /\ ret.infos = EmptyDict
        /\ snap.valid
        /\ Env = snap.env

\* the mismatch error of the base body after an agent was removed
C19_Witness ==
    /\ ret.op = "base_step"
    /\ ret.raised = "ValueError"
    /\ Len(entry_agents) = 2
    /\ action_agents = Range(possible_agents)

====
